---- MODULE Spec2Model ----
(***************************************************************************)
(* A model of dbt's YAML frontmatter helper                                *)
(* (core/dbt/clients/yaml_helper.py) and of the documentation parser       *)
(* (dbt/parser/docs.py).                                                   *)
(*                                                                         *)
(* Python strings are sequences of one-character strings, Python lists are *)
(* sequences, and an exception is a value [kind |-> "raise", exc |-> ...]. *)
(***************************************************************************)
EXTENDS Naturals, Integers, Sequences, FiniteSets, TLC

VARIABLES
  SafeLoader,   \* the yaml loader class the module bound at import (lines 7-10)
  content,      \* the document handed to the yaml_helper function called
  on_error,     \* the error policy argument of parse_yaml_frontmatter
  yaml_error,   \* the decode error handed to contextualized_yaml_error
  called,       \* which yaml_helper function has run ("none" before a call)
  result,       \* its outcome: a return value or a raised exception
  warn_calls,   \* messages handed to dbt.events.functions.warn_or_error
  parts,        \* parse_yaml_frontmatter's local `parts` when it exits
  pc,           \* position of DocumentationParser.load_and_parse
  to_return,    \* load_and_parse's registry: unique_id -> ParsedDocumentation
  ndocs,        \* number of docfiles load_file has yielded so far
  docfile,      \* the docfile parse() is iterating over
  pos,          \* how many macros of docfile's find_all() have been consumed
  last          \* what the last loop iteration did (candidate, outcome)

vars == <<SafeLoader, content, on_error, yaml_error, called, result, warn_calls, parts,
          pc, to_return, ndocs, docfile, pos, last>>

fmVars   == <<SafeLoader, content, on_error, yaml_error, called, result,
             warn_calls, parts>>
docsVars == <<pc, to_return, ndocs, docfile, pos, last>>

----------------------------------------------------------------------------
(* Bounds of the model. *)

\* documents of the frontmatter specification have at most this many lines
MaxLines == 4

\* documents of the error-rendering specification have at most this many lines
MaxCtxLines == 20

\* load_file yields at most this many docfiles in one batch
MaxDocs == 3

----------------------------------------------------------------------------
(* Python str helpers. *)

\* the characters Python's \s matches, among those the model's documents use
Whitespace == {" ", "\t", "\n", "\r"}

\* s[i:j] of Python, 0-based and half-open, for 0 <= i <= j <= len(s)
Slice(s, i, j) == SubSeq(s, i + 1, j)

\* "\n".join(lines)
RECURSIVE Join(_)
Join(lines) ==
  IF Len(lines) = 0 THEN <<>>
  ELSE IF Len(lines) = 1 THEN lines[1]
  ELSE lines[1] \o <<"\n">> \o Join(Tail(lines))

\* the index of the first "\n" of s at or after index i, or Len(s) + 1
NextNewline(s, i) ==
  LET nl == {j \in i..Len(s) : s[j] = "\n"}
  IN IF nl = {} THEN Len(s) + 1 ELSE CHOOSE j \in nl : \A k \in nl : j <= k

\* s.split("\n"): always at least one piece
RECURSIVE SplitLinesFrom(_, _)
SplitLinesFrom(s, i) ==
  LET e == NextNewline(s, i)
  IN <<SubSeq(s, i, e - 1)>>
       \o (IF e > Len(s) THEN <<>> ELSE SplitLinesFrom(s, e + 1))

SplitLines(s) == SplitLinesFrom(s, 1)

----------------------------------------------------------------------------
(* The two compiled patterns. Positions are 0-based offsets as in re.      *)

\* ^ under re.MULTILINE: at the start of the string or right after a newline
AtLineStart(s, p) == p = 0 \/ s[p] = "\n"

\* $ under re.MULTILINE: at the end of the string or right before a newline
AtLineEnd(s, q) == q = Len(s) \/ s[q + 1] = "\n"

\* the offsets q >= from such that s[from:q] is all whitespace (what \s* may eat)
RECURSIVE WsRunEnd(_, _)
WsRunEnd(s, q) ==
  IF q < Len(s) /\ s[q + 1] \in Whitespace THEN WsRunEnd(s, q + 1) ELSE q

\* greedy \s*$ from offset `from`: the largest q in from..WsRunEnd at a line end,
\* or -1 when backtracking finds none
GreedyWsThenEol(s, from) ==
  LET top  == WsRunEnd(s, from)
      ends == {q \in from..top : AtLineEnd(s, q)}
  IN IF ends = {} THEN -1 ELSE CHOOSE q \in ends : \A r \in ends : r <= q

\* the pattern without its \s*: ^---$
DelimiterMatchAtNoTrailing(s, p) ==
  IF /\ AtLineStart(s, p)
     /\ p + 3 <= Len(s)
     /\ s[p + 1] = "-" /\ s[p + 2] = "-" /\ s[p + 3] = "-"
     /\ AtLineEnd(s, p + 3)
  THEN p + 3
  ELSE -1

\* FRONTMATTER_DELIMITER.match at offset p: the end offset of the match, or -1
DelimiterMatchAt(s, p) ==
  IF /\ AtLineStart(s, p)
     /\ p + 3 <= Len(s)
     /\ s[p + 1] = "-" /\ s[p + 2] = "-" /\ s[p + 3] = "-"
  THEN GreedyWsThenEol(s, p + 3)
  ELSE -1

NoMatch == [found |-> FALSE, start |-> 0, end |-> 0]

\* FRONTMATTER_DELIMITER.search(s, from): the leftmost match at or after `from`
FRONTMATTER_DELIMITER_search(s, from) ==
  LET starts == {p \in from..Len(s) : DelimiterMatchAt(s, p) >= 0}
  IN IF starts = {} THEN NoMatch
     ELSE LET p == CHOOSE x \in starts : \A y \in starts : x <= y
          IN [found |-> TRUE, start |-> p, end |-> DelimiterMatchAt(s, p)]

\* FRONTMATTER_DELIMITER.split(s, maxsplit): cut at the first maxsplit matches,
\* scanning on from the end of each match (the pattern has no groups and its
\* matches are never empty)
RECURSIVE SplitFrom(_, _, _)
SplitFrom(s, from, maxsplit) ==
  LET m == FRONTMATTER_DELIMITER_search(s, from)
  IN IF maxsplit = 0 \/ ~m.found THEN <<Slice(s, from, Len(s))>>
     ELSE <<Slice(s, from, m.start)>> \o SplitFrom(s, m.end, maxsplit - 1)

FRONTMATTER_DELIMITER_split(s, maxsplit) == SplitFrom(s, 0, maxsplit)

\* NON_WHITESPACE.search(s) is not None
NON_WHITESPACE_search(s) == \E i \in 1..Len(s) : s[i] \notin Whitespace

----------------------------------------------------------------------------
(* Error rendering: line_no, prefix_with_line_numbers,                     *)
(* contextualized_yaml_error.                                              *)

Max(a, b) == IF a >= b THEN a ELSE b
Min(a, b) == IF a <= b THEN a ELSE b

DigitChars == <<"0", "1", "2", "3", "4", "5", "6", "7", "8", "9">>

\* str(i) for an int i >= 0
RECURSIVE PyStr(_)
PyStr(i) ==
  IF i < 10 THEN <<DigitChars[i + 1]>>
  ELSE PyStr(i \div 10) \o <<DigitChars[(i % 10) + 1]>>

\* s.ljust(width): pad with spaces on the right, never truncate
RECURSIVE LJust(_, _)
LJust(s, width) == IF Len(s) >= width THEN s ELSE LJust(Append(s, " "), width)

\* the default of line_no's width parameter
LineNoWidth == 3

\* line_no(i, line, width=3)
line_no(i, line) == LJust(PyStr(i), LineNoWidth) \o <<"|", " ">> \o line

\* line_list[no_start:no_end] zipped with range(no_start, no_end): the pairs
\* (i, line) for the indices the slice keeps, Python clipping it to the list
ZipNumbered(line_list, no_start, no_end) ==
  LET hi == Min(no_end, Len(line_list))
  IN [k \in 1..Max(hi - no_start, 0) |->
        [i |-> no_start + k - 1, line |-> line_list[no_start + k]]]

\* prefix_with_line_numbers(string, no_start, no_end)
prefix_with_line_numbers(string, no_start, no_end) ==
  LET line_list == SplitLines(string)
      pairs     == ZipNumbered(line_list, no_start, no_end)
  IN Join([k \in 1..Len(pairs) |-> line_no(pairs[k].i + 1, pairs[k].line)])

\* the literal pieces of YAML_ERROR_MESSAGE (after .strip())
MsgHeader == <<"S", "y", "n", "t", "a", "x", " ", "e", "r", "r", "o", "r", " ",
               "n", "e", "a", "r", " ", "l", "i", "n", "e", " ">>
MsgRule   == <<"-", "-", "-", "-", "-", "-", "-", "-", "-", "-",
               "-", "-", "-", "-", "-", "-", "-", "-", "-", "-",
               "-", "-", "-", "-", "-", "-", "-", "-", "-", "-">>
MsgRaw    == <<"R", "a", "w", " ", "E", "r", "r", "o", "r", ":">>

\* YAML_ERROR_MESSAGE.format(line_number=..., nice_error=..., raw_error=...)
YAML_ERROR_MESSAGE(line_number, nice_error, raw_error) ==
  MsgHeader \o PyStr(line_number) \o <<"\n">> \o MsgRule \o <<"\n">>
    \o nice_error \o <<"\n", "\n">> \o MsgRaw \o <<"\n">> \o MsgRule \o <<"\n">>
    \o raw_error

\* a window whose end is taken as inclusive
CtxMaxLineInclusive(line) == line + 3

\* the two bounds of the context window (lines 43 and 44)
CtxMinLine(line) == Max(line - 3, 0)
CtxMaxLine(line) == line + 4

\* contextualized_yaml_error(raw_contents, error); error carries
\* problem_mark.line (`line`) and its str() (`text`)
contextualized_yaml_error(raw_contents, error) ==
  LET min_line   == CtxMinLine(error.line)
      max_line   == CtxMaxLine(error.line)
      nice_error == prefix_with_line_numbers(raw_contents, min_line, max_line)
  IN YAML_ERROR_MESSAGE(error.line + 1, nice_error, error.text)

----------------------------------------------------------------------------
(* safe_load: yaml.load(contents, Loader=SafeLoader), on the fragment of   *)
(* YAML the model's documents use: blank lines, block-mapping entries      *)
(* `k: d` at column 0, and a line led by a tab, which the YAML scanner     *)
(* rejects at that line. Any other text is outside the fragment and the    *)
(* model does not say what the decoder returns for it.                     *)

Letters == {"a", "b", "c"}

DigitValue(c) == CHOOSE d \in 0..9 : DigitChars[d + 1] = c

IsDigit(c) == \E d \in 1..10 : DigitChars[d] = c

YamlLineKind(line) ==
  IF \A i \in 1..Len(line) : line[i] = " " THEN "blank"
  ELSE IF /\ Len(line) = 4 /\ line[1] \in Letters /\ line[2] = ":"
          /\ line[3] = " " /\ IsDigit(line[4]) THEN "entry"
  ELSE IF line[1] = "\t" THEN "tab"
  ELSE "other"

\* the loaders line 8 or, on ImportError, line 10 binds to SafeLoader
Loaders == {"CSafeLoader", "SafeLoader"}

\* context of the scanner's error between two tokens
ErrNextToken ==
  <<"w", "h", "i", "l", "e", " ", "s", "c", "a", "n", "n", "i",
    "n", "g", " ", "f", "o", "r", " ", "t", "h", "e", " ", "n",
    "e", "x", "t", " ", "t", "o", "k", "e", "n">>

\* problem of the C scanner for a character that starts no token
ErrNoTokenC ==
  <<"f", "o", "u", "n", "d", " ", "c", "h", "a", "r", "a", "c",
    "t", "e", "r", " ", "t", "h", "a", "t", " ", "c", "a", "n",
    "n", "o", "t", " ", "s", "t", "a", "r", "t", " ", "a", "n",
    "y", " ", "t", "o", "k", "e", "n">>

\* problem of the Python scanner for a tab that starts no token:
\* "found character %r that cannot start any token" % ch
ErrNoTokenPy ==
  <<"f", "o", "u", "n", "d", " ", "c", "h", "a", "r", "a", "c",
    "t", "e", "r", " ", "'", "\\", "t", "'", " ", "t", "h", "a",
    "t", " ", "c", "a", "n", "n", "o", "t", " ", "s", "t", "a",
    "r", "t", " ", "a", "n", "y", " ", "t", "o", "k", "e", "n">>

\* context of the C scanner's error inside a plain scalar
ErrPlainScalar ==
  <<"w", "h", "i", "l", "e", " ", "s", "c", "a", "n", "n", "i",
    "n", "g", " ", "a", " ", "p", "l", "a", "i", "n", " ", "s",
    "c", "a", "l", "a", "r">>

\* problem of the C scanner for a tab in the indentation after a plain scalar
ErrTabIndent ==
  <<"f", "o", "u", "n", "d", " ", "a", " ", "t", "a", "b", " ",
    "c", "h", "a", "r", "a", "c", "t", "e", "r", " ", "t", "h",
    "a", "t", " ", "v", "i", "o", "l", "a", "t", "e", "s", " ",
    "i", "n", "d", "e", "n", "t", "a", "t", "i", "o", "n">>

\* the pieces of str(mark): '  in "%s", line %d, column %d' with the name
\* "<unicode string>" of a str input
MarkIn ==
  <<" ", " ", "i", "n", " ", "\"", "<", "u", "n", "i", "c", "o",
    "d", "e", " ", "s", "t", "r", "i", "n", "g", ">", "\"", ",",
    " ", "l", "i", "n", "e", " ">>

MarkColumn ==
  <<",", " ", "c", "o", "l", "u", "m", "n", " ">>

\* str(mark) of the C loader, whose marks hold no buffer; line and column are
\* 0-based and printed 1-based
MarkText(line, column) ==
  MarkIn \o PyStr(line + 1) \o MarkColumn \o PyStr(column + 1)

\* mark.get_snippet() of the Python loader for a mark at the start of `line`:
\* the text up to a line break, cut to 32 characters and " ... " once it
\* runs to 37, over a caret under the marked character, both indented by 4
Snippet(line) ==
  LET cr   == {i \in 1..Len(line) : line[i] = "\r"}
      n    == IF cr = {} THEN Len(line)
              ELSE (CHOOSE i \in cr : \A j \in cr : i <= j) - 1
      text == IF n >= 37 THEN SubSeq(line, 1, 32) \o <<" ", ".", ".", ".", " ">>
              ELSE SubSeq(line, 1, n)
  IN <<" ", " ", " ", " ">> \o text \o <<"\n", " ", " ", " ", " ", "^">>

\* str(mark) of the Python loader: the position, ":" and the snippet
MarkTextWithSnippet(line, column, text) ==
  MarkText(line, column) \o <<":", "\n">> \o Snippet(text)

\* str(e) of the ScannerError raised for the tab that leads lines[first], the
\* lines before it being blank or entries. The Python scanner and, with no
\* entry before the tab, the C scanner meet the tab while looking for the next
\* token. After an entry the C scanner is still scanning the entry's plain
\* scalar (column 3 of that line) and reports the tab as bad indentation,
\* with the scalar's mark as context.
ScannerErrorText(loader, lines, first) ==
  LET entries == {i \in 1..(first - 1) : YamlLineKind(lines[i]) = "entry"}
      scalar  == CHOOSE i \in entries : \A j \in entries : j <= i
  IN IF loader = "SafeLoader"
     THEN ErrNextToken \o <<"\n">> \o ErrNoTokenPy \o <<"\n">>
            \o MarkTextWithSnippet(first - 1, 0, lines[first])
     ELSE IF entries = {}
     THEN ErrNextToken \o <<"\n">> \o ErrNoTokenC \o <<"\n">>
            \o MarkText(first - 1, 0)
     ELSE ErrPlainScalar \o <<"\n">> \o MarkText(scalar - 1, 3) \o <<"\n">>
            \o ErrTabIndent \o <<"\n">> \o MarkText(first - 1, 0)

NoError == [has_mark |-> FALSE, line |-> 0, text |-> <<>>]

\* the mapping a sequence of entry lines builds; a repeated key keeps the last
YamlEntries(lines) ==
  {<<lines[i][1], DigitValue(lines[i][4])>> :
     i \in {j \in 1..Len(lines) :
              /\ YamlLineKind(lines[j]) = "entry"
              /\ \A k \in (j + 1)..Len(lines) :
                   YamlLineKind(lines[k]) = "entry" => lines[k][1] # lines[j][1]}}

\* kind "ok": the document decodes (isNone: to None, else to the mapping
\* `entries`); kind "error": yaml.YAMLError with a problem_mark; kind
\* "unmodelled": text outside the fragment. The loader is the module's
\* SafeLoader.
safe_load(contents) ==
  LET lines == SplitLines(contents)
      bad   == {i \in 1..Len(lines) : YamlLineKind(lines[i]) \notin {"blank", "entry"}}
      first == CHOOSE i \in bad : \A j \in bad : i <= j
      ents  == YamlEntries(lines)
  IN IF bad = {}
     THEN [kind |-> "ok", isNone |-> (ents = {}), entries |-> ents, error |-> NoError]
     ELSE IF YamlLineKind(lines[first]) = "tab"
     THEN [kind |-> "error", isNone |-> TRUE, entries |-> {},
           error |-> [has_mark |-> TRUE, line |-> first - 1, text |-> ScannerErrorText(SafeLoader, lines, first)]]
     ELSE [kind |-> "unmodelled", isNone |-> TRUE, entries |-> {}, error |-> NoError]

----------------------------------------------------------------------------
(* Python values and outcomes. *)

None == [isNone |-> TRUE, entries |-> {}]

Mapping(ents) == [isNone |-> FALSE, entries |-> ents]

\* `return front, body` of parse_yaml_frontmatter
ReturnPair(front, body) ==
  [kind |-> "return", exc |-> "", front |-> front, body |-> body, match |-> NoMatch]

\* `return m` of maybe_has_yaml_frontmatter: a re.Match (found) or None
ReturnMatch(m) ==
  [kind |-> "return", exc |-> "", front |-> None, body |-> <<>>, match |-> m]

\* an exception leaving the function
Raise(exc) ==
  [kind |-> "raise", exc |-> exc, front |-> None, body |-> <<>>, match |-> NoMatch]

\* the decoder's answer lies outside the modelled YAML fragment
Unmodelled ==
  [kind |-> "unmodelled", exc |-> "", front |-> None, body |-> <<>>, match |-> NoMatch]

NotCalled ==
  [kind |-> "none", exc |-> "", front |-> None, body |-> <<>>, match |-> NoMatch]

\* `a != b` for a list a and an int b: a bool, always True
PyListNeInt(a, b) == [type |-> "bool", val |-> TRUE, items |-> <<>>]

PyList(items) == [type |-> "list", val |-> FALSE, items |-> items]

\* len(v): defined for a list, TypeError for a bool
PyLen(v) ==
  IF v.type = "list" THEN [exc |-> "", n |-> Len(v.items)]
  ELSE [exc |-> "TypeError", n |-> 0]

----------------------------------------------------------------------------
(* parse_yaml_frontmatter and maybe_has_yaml_frontmatter. *)

Banner == <<"E", "r", "r", "o", "r", " ", "p", "a", "r", "s", "i", "n", "g",
            " ", "Y", "A", "M", "L", " ", "f", "r", "o", "n", "t", "m", "a",
            "t", "t", "e", "r", "!">>

\* lines 84-96: decode the middle segment and apply the error policy. `strict`
\* is the process-wide setting that makes warn_or_error raise instead of log.
DecodeFrontmatter(content_, on_error_, strict, yaml_content, after_footer) ==
  LET y == safe_load(yaml_content)
      error == IF y.error.has_mark
               THEN contextualized_yaml_error(content_, y.error)
               ELSE y.error.text
      msg == Banner \o error
  IN IF y.kind = "unmodelled" THEN [result |-> Unmodelled, warn_calls |-> <<>>]
     ELSE IF y.kind = "error"
     THEN IF on_error_ = "warn_or_error"
          THEN [result |-> IF strict THEN Raise("DbtValidationError")
                           ELSE ReturnPair(None, content_),
                warn_calls |-> <<msg>>]
          ELSE [result |-> ReturnPair(None, content_), warn_calls |-> <<>>]
     ELSE [result |-> ReturnPair([isNone |-> y.isNone, entries |-> y.entries],
                                 after_footer),
           warn_calls |-> <<>>]

\* parse_yaml_frontmatter(content, on_error): the outcome, the messages handed
\* to warn_or_error, and the local `parts` of line 77. The condition of line
\* 78 is len(parts != 3): the comparison is evaluated first and len() is
\* applied to its bool.
parse_yaml_frontmatter(content_, on_error_, strict) ==
  LET split == FRONTMATTER_DELIMITER_split(content_, 2)
      n     == PyLen(PyListNeInt(PyList(split), 3))
      out   ==
        IF n.exc # "" THEN [result |-> Raise(n.exc), warn_calls |-> <<>>]
        ELSE IF n.n # 0 \/ NON_WHITESPACE_search(split[1])
        THEN [result |-> ReturnPair(None, content_), warn_calls |-> <<>>]
        ELSE IF Len(split) # 3
        THEN [result |-> Raise("ValueError"), warn_calls |-> <<>>]
        ELSE DecodeFrontmatter(content_, on_error_, strict, split[2], split[3])
  IN [result |-> out.result, warn_calls |-> out.warn_calls, parts |-> split]

\* the pre-filter with match() in place of search(): anchored at offset 0
MaybeHasAtStartOnly(content_) ==
  ReturnMatch(IF DelimiterMatchAt(content_, 0) >= 0
              THEN [found |-> TRUE, start |-> 0, end |-> DelimiterMatchAt(content_, 0)]
              ELSE NoMatch)

\* maybe_has_yaml_frontmatter(content): what FRONTMATTER_DELIMITER.search
\* returns, a match object or None
maybe_has_yaml_frontmatter(content_) ==
  ReturnMatch(FRONTMATTER_DELIMITER_search(content_, 0))

\* bool(v) of a returned re.Match or None
Truthy(r) == r.kind = "return" /\ r.match.found

\* load_yaml_text(contents): the decoded document, or DbtValidationError
\* carrying the rendered message (in `body`)
load_yaml_text(contents) ==
  LET y == safe_load(contents)
      error == IF y.error.has_mark
               THEN contextualized_yaml_error(contents, y.error)
               ELSE y.error.text
  IN IF y.kind = "unmodelled" THEN Unmodelled
     ELSE IF y.kind = "error"
     THEN [Raise("DbtValidationError") EXCEPT !.body = error]
     ELSE ReturnPair([isNone |-> y.isNone, entries |-> y.entries], <<>>)

----------------------------------------------------------------------------
(* Python str methods the documentation parser uses. *)

\* key.startswith(prefix)
StartsWith(key, prefix) ==
  Len(key) >= Len(prefix) /\ SubSeq(key, 1, Len(prefix)) = prefix

\* key.replace(old, ''): every non-overlapping occurrence of `old`, leftmost
\* first, is removed
RECURSIVE ReplaceWithEmpty(_, _)
ReplaceWithEmpty(key, old) ==
  IF Len(key) = 0 THEN <<>>
  ELSE IF StartsWith(key, old)
  THEN ReplaceWithEmpty(SubSeq(key, Len(old) + 1, Len(key)), old)
  ELSE <<key[1]>> \o ReplaceWithEmpty(Tail(key), old)

\* dbt.utils.DOCS_PREFIX
DOCS_PREFIX == <<"d", "b", "t", "_", "d", "o", "c", "s", "_", "_">>

\* '{}.{}'.format(package_name, name)
FormatUniqueId(package_name, name) == package_name \o <<".">> \o name

----------------------------------------------------------------------------
(* The jinja2 syntax tree env.parse returns. A node is a record with its   *)
(* class in `type`; the fields its class does not declare are unset, and   *)
(* reading one raises AttributeError.                                      *)

Node(type, name, body, nodes, data) ==
  [type |-> type, name |-> name, body |-> body, nodes |-> nodes, data |-> data]

Template(body)     == Node("Template", <<>>, body, <<>>, <<>>)
Macro(name, body)  == Node("Macro", name, body, <<>>, <<>>)
Output(nodes)      == Node("Output", <<>>, <<>>, nodes, <<>>)
TemplateData(data) == Node("TemplateData", <<>>, <<>>, <<>>, data)
NameExpr(name)     == Node("Name", name, <<>>, <<>>, <<>>)
IfStmt(body)       == Node("If", <<>>, body, <<>>, <<>>)

\* the attributes an instance of each node class has (jinja2.nodes `fields`)
NodeFields(type) ==
  CASE type = "Template"     -> {"body"}
    [] type = "Macro"        -> {"name", "args", "defaults", "body"}
    [] type = "Output"       -> {"nodes"}
    [] type = "TemplateData" -> {"data"}
    [] type = "Name"         -> {"name", "ctx"}
    [] type = "If"           -> {"test", "body", "elif_", "else_"}

HasAttr(node, attr) == attr \in NodeFields(node.type)

\* Node.iter_child_nodes: the nodes held in the fields, in field order (the
\* expression fields of Macro and If hold no statement, hence no Macro)
ChildNodes(node) ==
  IF HasAttr(node, "body") THEN node.body
  ELSE IF HasAttr(node, "nodes") THEN node.nodes
  ELSE <<>>

\* ast.find_all(jinja2.nodes.Macro): every Macro below `node`, in pre-order
RECURSIVE FindAllMacros(_)
RECURSIVE FindAllIn(_)
FindAllIn(children) ==
  IF Len(children) = 0 THEN <<>>
  ELSE (IF children[1].type = "Macro" THEN <<children[1]>> ELSE <<>>)
         \o FindAllMacros(children[1]) \o FindAllIn(Tail(children))

FindAllMacros(node) == FindAllIn(ChildNodes(node))

----------------------------------------------------------------------------
(* DocumentationParser.parse, one macro of the generator at a time. *)

\* lines 68-71: the block contents, or the AttributeError the attribute
\* reads raise
BlockContents(macro) ==
  IF Len(macro.body) = 0 THEN [exc |-> "", contents |-> <<>>]
  ELSE IF ~HasAttr(macro.body[1], "nodes")
  THEN [exc |-> "AttributeError", contents |-> <<>>]
  ELSE IF Len(macro.body[1].nodes) = 0 THEN [exc |-> "", contents |-> <<>>]
  ELSE IF ~HasAttr(macro.body[1].nodes[1], "data")
  THEN [exc |-> "AttributeError", contents |-> <<>>]
  ELSE [exc |-> "", contents |-> macro.body[1].nodes[1].data]

\* line 57: the bare name
BareName(key) == ReplaceWithEmpty(key, DOCS_PREFIX)

NoRecord ==
  [root_path |-> "", resource_type |-> "", path |-> "",
   original_file_path |-> <<>>, package_name |-> <<>>, file_contents |-> "",
   name |-> <<>>, unique_id |-> <<>>, block_contents |-> <<>>]

\* lines 72-80: deep_merge(docfile.serialize(), {...}) as ParsedDocumentation
ParsedDocumentation(doc, name, unique_id, contents) ==
  [root_path |-> doc.root_path, resource_type |-> doc.resource_type,
   path |-> doc.path, original_file_path |-> doc.original_file_path,
   package_name |-> doc.package_name, file_contents |-> doc.file_contents,
   name |-> name, unique_id |-> unique_id, block_contents |-> contents]

\* lines 53-80 for one macro of find_all: "skip" (continue), "raise", or
\* "yield" with the record. The fqn of lines 62-63 is computed and not used.
ParseMacroNode(doc, macro) ==
  LET key       == macro.name
      name      == BareName(key)
      unique_id == FormatUniqueId(doc.package_name, name)
      c         == BlockContents(macro)
  IN IF ~StartsWith(key, DOCS_PREFIX)
     THEN [outcome |-> "skip", exc |-> "", parsed |-> NoRecord]
     ELSE IF c.exc # ""
     THEN [outcome |-> "raise", exc |-> c.exc, parsed |-> NoRecord]
     ELSE [outcome |-> "yield", exc |-> "",
           parsed |-> ParsedDocumentation(doc, name, unique_id, c.contents)]

----------------------------------------------------------------------------
(* DocumentationParser.load_file and load_and_parse. *)

\* lines 26-45: the UnparsedDocumentationFile of one matching file; `ast` is
\* what env.parse makes of its contents
UnparsedDocumentationFile(package_name, root_dir, file_match) ==
  [root_path |-> root_dir, resource_type |-> "documentation",
   path |-> file_match.relative_path,
   original_file_path |-> <<file_match.searched_path, file_match.relative_path>>,
   package_name |-> package_name,
   file_contents |-> file_match.contents,
   ast |-> file_match.ast]

\* dbt.exceptions.raise_duplicate_resource_name(node_1, node_2): raises the
\* duplicate-resource error naming both nodes
raise_duplicate_resource_name(node_1, node_2) ==
  [exc |-> "DuplicateResourceError", first |-> node_1, second |-> node_2]

NoException == [exc |-> "", first |-> NoRecord, second |-> NoRecord]

\* to_return[unique_id] = parsed
DictSet(d, k, v) == [u \in DOMAIN d \cup {k} |-> IF u = k THEN v ELSE d[u]]

\* the loop body without its membership test: a later record replaces the
\* stored one
RegistryStepOverwrite(reg, parsed) ==
  [raised |-> NoException, reg |-> DictSet(reg, parsed.unique_id, parsed)]

\* lines 88-92, the body of the inner loop for one parsed record
RegistryStep(reg, parsed) ==
  IF parsed.unique_id \in DOMAIN reg
  THEN [raised |-> raise_duplicate_resource_name(reg[parsed.unique_id], parsed),
        reg |-> reg]
  ELSE [raised |-> NoException, reg |-> DictSet(reg, parsed.unique_id, parsed)]

NoDocfile ==
  [root_path |-> "", resource_type |-> "", path |-> "",
   original_file_path |-> <<>>, package_name |-> <<>>, file_contents |-> "",
   ast |-> Template(<<>>)]

NoStep ==
  [outcome |-> "none", key |-> <<>>, macro |-> Macro(<<>>, <<>>), exc |-> "",
   first |-> NoRecord, second |-> NoRecord]

----------------------------------------------------------------------------
(* The documentation parser is idle in the yaml_helper specifications, and *)
(* the yaml_helper is idle in the parser's.                                *)

DocsIdle ==
  /\ pc = "idle"
  /\ to_return = <<>>
  /\ ndocs = 0
  /\ docfile = NoDocfile
  /\ pos = 0
  /\ last = NoStep

FmIdle ==
  /\ SafeLoader = "unbound"
  /\ content = <<>>
  /\ on_error = "none"
  /\ yaml_error = NoError
  /\ called = "none"
  /\ result = NotCalled
  /\ warn_calls = <<>>
  /\ parts = <<>>

----------------------------------------------------------------------------
(* Frontmatter specification: one call of a yaml_helper function on a      *)
(* document made of at most MaxLines lines.                                *)

FmLines ==
  { <<"-", "-", "-">>,
    <<"-", "-", "-", " ", "\t">>,
    <<"-", "-", "-", "\r">>,
    <<" ", "-", "-", "-">>,
    <<"-", "-", "-", "-">>,
    <<>>,
    <<"a", ":", " ", "1">>,
    <<"\t", "b">>,
    <<"B", "O", "D", "Y">> }

FmDocuments ==
  {Join(ls) : ls \in UNION {[1..n -> FmLines] : n \in 1..MaxLines}}

Policies == {"warn_or_error", "ignore"}

InitFM ==
  /\ SafeLoader \in Loaders
  /\ content \in FmDocuments
  /\ on_error = "none"
  /\ yaml_error = NoError
  /\ called = "none"
  /\ result = NotCalled
  /\ warn_calls = <<>>
  /\ parts = <<>>
  /\ DocsIdle

CallParseYamlFrontmatter ==
  /\ called = "none"
  /\ \E pol \in Policies, strict \in BOOLEAN :
       LET r == parse_yaml_frontmatter(content, pol, strict)
       IN /\ on_error' = pol
          /\ result' = r.result
          /\ warn_calls' = r.warn_calls
          /\ parts' = r.parts
  /\ called' = "parse_yaml_frontmatter"
  /\ UNCHANGED <<SafeLoader, content, yaml_error, docsVars>>

CallMaybeHasYamlFrontmatter ==
  /\ called = "none"
  /\ result' = maybe_has_yaml_frontmatter(content)
  /\ called' = "maybe_has_yaml_frontmatter"
  /\ UNCHANGED <<SafeLoader, content, on_error, yaml_error, warn_calls, parts,
                 docsVars>>

CallLoadYamlText ==
  /\ called = "none"
  /\ result' = load_yaml_text(content)
  /\ called' = "load_yaml_text"
  /\ UNCHANGED <<SafeLoader, content, on_error, yaml_error, warn_calls, parts,
                 docsVars>>

NextFM ==
  \/ CallParseYamlFrontmatter
  \/ CallMaybeHasYamlFrontmatter
  \/ CallLoadYamlText

SpecFM == InitFM /\ [][NextFM]_vars

----------------------------------------------------------------------------
(* Error-rendering specification: one call of contextualized_yaml_error on *)
(* a document of at most MaxCtxLines lines and an error marked at any line *)
(* of it or shortly past its end.                                          *)

\* line i (0-based) of a document of the given style
CtxLine(style, i) ==
  IF style = "numbered" THEN <<"L">> \o PyStr(i)
  ELSE IF style = "blank" THEN <<>>
  ELSE <<"a", ":", " ", DigitChars[(i % 10) + 1]>>

CtxStyles == {"numbered", "blank", "entries"}

CtxDocument(style, n) == Join([k \in 1..n |-> CtxLine(style, k - 1)])

\* str(e) of the errors handed over: the bound loader's scanner error for a
\* tab, or some other text
CtxErrorTexts ==
  {ScannerErrorText(SafeLoader, <<<<"\t", "b">>>>, 1), <<"e", "\n", "\n", "x">>}

InitErr ==
  /\ SafeLoader \in Loaders
  /\ \E style \in CtxStyles, n \in 1..MaxCtxLines :
       /\ content = CtxDocument(style, n)
       /\ \E l \in 0..(n + 4), t \in CtxErrorTexts :
            yaml_error = [has_mark |-> TRUE, line |-> l, text |-> t]
  /\ on_error = "none"
  /\ called = "none"
  /\ result = NotCalled
  /\ warn_calls = <<>>
  /\ parts = <<>>
  /\ DocsIdle

CallContextualizedYamlError ==
  /\ called = "none"
  /\ result' = ReturnPair(None, contextualized_yaml_error(content, yaml_error))
  /\ called' = "contextualized_yaml_error"
  /\ UNCHANGED <<SafeLoader, content, on_error, yaml_error, warn_calls, parts,
                 docsVars>>

NextErr == CallContextualizedYamlError

SpecErr == InitErr /\ [][NextErr]_vars

----------------------------------------------------------------------------
(* Documentation-parser specification: one call of load_and_parse over a   *)
(* batch of at most MaxDocs docfiles, each drawn from DocMatches.          *)

PackageName == <<"p", "k", "g">>
RootDir     == "/project"

Hello == <<"h", "e", "l", "l", "o">>
Bye   == <<"b", "y", "e">>

\* declared macro names: what the docs extension makes of {% docs foo %} is
\* dbt_docs__foo; a plain {% macro %} keeps its name
KeyFoo     == DOCS_PREFIX \o <<"f", "o", "o">>
KeyBar     == DOCS_PREFIX \o <<"b", "a", "r">>
KeyPlain   == <<"f", "o", "o">>
KeyInner   == <<"x", "_">> \o DOCS_PREFIX \o <<"f", "o", "o">>
KeyTwice   == DOCS_PREFIX \o <<"a", "_">> \o DOCS_PREFIX \o <<"b">>
KeyAB      == DOCS_PREFIX \o <<"a", "_", "b">>

\* macro bodies
BodyLiteral(text) == <<Output(<<TemplateData(text)>>)>>
BodyEmpty         == <<>>
BodyEmptyOutput   == <<Output(<<>>)>>
BodyIf            == <<IfStmt(BodyLiteral(Hello))>>
BodyExprFirst     == <<Output(<<NameExpr(<<"v">>), TemplateData(Hello)>>)>>
BodyMixed         == <<Output(<<TemplateData(Hello), NameExpr(<<"v">>), TemplateData(Bye)>>)>>
BodyNested        == <<Output(<<TemplateData(Hello)>>), Macro(KeyBar, BodyLiteral(Bye))>>

FileMatch(searched_path, relative_path, contents, body) ==
  [searched_path |-> searched_path, relative_path |-> relative_path,
   contents |-> contents, ast |-> Template(body)]

\* the files find_matching may discover
DocMatches ==
  { FileMatch("docs", "a.md", "src-a", <<Macro(KeyFoo, BodyLiteral(Hello))>>),
    FileMatch("docs", "b.md", "src-b", <<Macro(KeyFoo, BodyLiteral(Bye))>>),
    FileMatch("docs", "c.md", "src-c",
              <<Macro(KeyPlain, BodyLiteral(Hello)), Macro(KeyBar, BodyEmpty)>>),
    FileMatch("docs", "d.md", "src-d", <<Macro(KeyTwice, BodyLiteral(Hello))>>),
    FileMatch("docs", "e.md", "src-e", <<Macro(KeyAB, BodyLiteral(Bye))>>),
    FileMatch("docs", "f.md", "src-f", <<Macro(KeyBar, BodyIf)>>),
    FileMatch("docs", "g.md", "src-g", <<Macro(KeyBar, BodyExprFirst)>>),
    FileMatch("docs", "h.md", "src-h", <<Macro(KeyBar, BodyEmptyOutput)>>),
    FileMatch("docs", "i.md", "src-i",
              <<Macro(KeyFoo, BodyMixed), Macro(KeyInner, BodyLiteral(Hello)),
                Macro(KeyFoo, BodyLiteral(Bye))>>),
    FileMatch("docs", "j.md", "src-j",
              <<Output(<<TemplateData(Hello)>>),
                IfStmt(<<Macro(KeyFoo, BodyNested)>>)>>),
    FileMatch("docs", "k.md", "src-k", <<>>) }

\* the macros parse() iterates over in the current docfile
Macros == FindAllMacros(docfile.ast)

\* the generator of parse() has no macro left
Exhausted == pos = Len(Macros)

InitDocs ==
  /\ pc = "running"
  /\ to_return = <<>>
  /\ ndocs = 0
  /\ docfile = NoDocfile
  /\ pos = 0
  /\ last = NoStep
  /\ FmIdle

\* line 86: load_file yields the next docfile, once the previous one's
\* generator is exhausted
LoadFileYield ==
  /\ pc = "running"
  /\ Exhausted
  /\ ndocs < MaxDocs
  /\ \E m \in DocMatches :
       docfile' = UnparsedDocumentationFile(PackageName, RootDir, m)
  /\ pos' = 0
  /\ ndocs' = ndocs + 1
  /\ last' = NoStep
  /\ UNCHANGED <<pc, to_return, fmVars>>

\* lines 87-92 with parse()'s lines 52-80: one iteration over the next macro
ParseMacro ==
  /\ pc = "running"
  /\ ~Exhausted
  /\ LET macro == Macros[pos + 1]
         p     == ParseMacroNode(docfile, macro)
         step  == RegistryStep(to_return, p.parsed)
         seen  == [NoStep EXCEPT !.key = macro.name, !.macro = macro]
     IN CASE p.outcome = "skip" ->
               /\ last' = [seen EXCEPT !.outcome = "skip"]
               /\ UNCHANGED <<pc, to_return>>
          [] p.outcome = "raise" ->
               /\ last' = [seen EXCEPT !.outcome = "raise", !.exc = p.exc]
               /\ pc' = "raised"
               /\ UNCHANGED to_return
          [] p.outcome = "yield" /\ step.raised.exc # "" ->
               /\ last' = [seen EXCEPT !.outcome = "raise",
                                       !.exc = step.raised.exc,
                                       !.first = step.raised.first,
                                       !.second = step.raised.second]
               /\ pc' = "raised"
               /\ to_return' = step.reg
          [] p.outcome = "yield" /\ step.raised.exc = "" ->
               /\ last' = [seen EXCEPT !.outcome = "stored", !.second = p.parsed]
               /\ to_return' = step.reg
               /\ UNCHANGED pc
  /\ pos' = pos + 1
  /\ UNCHANGED <<ndocs, docfile, fmVars>>

\* line 93: load_file is exhausted and the registry is returned
ReturnRegistry ==
  /\ pc = "running"
  /\ Exhausted
  /\ pc' = "returned"
  /\ UNCHANGED <<to_return, ndocs, docfile, pos, last, fmVars>>

NextDocs ==
  \/ LoadFileYield
  \/ ParseMacro
  \/ ReturnRegistry

SpecDocs == InitDocs /\ [][NextDocs]_vars

----------------------------------------------------------------------------
(* Properties of the documentation parser, checked under SpecDocs. *)

\* the record parse() hands to the loop body at the current position
Candidate == ParseMacroNode(docfile, Macros[pos + 1])

\* C1: load_and_parse fails with the duplicate-resource error at the first
\* candidate whose unique identifier is already a key of the registry, naming
\* the stored record and then the new one; the stored record is never
\* overwritten, and nothing is processed after the collision. As a step
\* property: every step starts from a running loop (none follows a raise), no
\* step changes or drops a stored record, and a step whose candidate's
\* identifier is already a key raises the duplicate error for (stored, new)
\* and leaves the registry as it was.
C1_DuplicateFailsFast ==
  [][ /\ pc = "running"
      /\ \A u \in DOMAIN to_return :
           u \in DOMAIN to_return' /\ to_return'[u] = to_return[u]
      /\ ( /\ ~Exhausted
           /\ Candidate.outcome = "yield"
           /\ Candidate.parsed.unique_id \in DOMAIN to_return )
         => /\ pc' = "raised"
            /\ last'.exc = "DuplicateResourceError"
            /\ last'.first = to_return[Candidate.parsed.unique_id]
            /\ last'.second = Candidate.parsed
            /\ to_return' = to_return
    ]_vars

\* a collision between records of two different files: the stored one is
\* still in the registry and is named first
C1_Witness ==
  /\ pc = "raised"
  /\ last.exc = "DuplicateResourceError"
  /\ ndocs >= 2
  /\ last.first.path # last.second.path
  /\ last.first.unique_id = last.second.unique_id
  /\ to_return[last.second.unique_id] = last.first

\* the last iteration emitted a record (stored it, or collided with it)
Emitted == last.outcome = "stored" \/ last.exc = "DuplicateResourceError"

\* key with its leading prefix removed and nothing else
StripLeadingPrefix(key) == SubSeq(key, Len(DOCS_PREFIX) + 1, Len(key))

\* C6: parse emits a record only for macros whose declared name begins with
\* the documentation prefix; the bare name of every emitted record is the
\* declared name with that leading prefix stripped and nothing else removed,
\* and the unique identifier is <package_name>.<bare_name>; macros whose name
\* does not begin with the prefix are never emitted.
C6_BareNameIsKeyWithoutLeadingPrefix ==
  /\ Emitted =>
       /\ StartsWith(last.key, DOCS_PREFIX)
       /\ last.second.name = StripLeadingPrefix(last.key)
       /\ last.second.unique_id
            = last.second.package_name \o <<".">> \o last.second.name
  /\ (last.outcome # "none" /\ ~StartsWith(last.key, DOCS_PREFIX))
       => last.outcome = "skip"

\* the contents C7 expects of a macro: the literal data of the first child of
\* the first body element, when there is one; the empty string otherwise
ExpectedContents(macro) ==
  IF /\ Len(macro.body) > 0
     /\ macro.body[1].type = "Output"
     /\ Len(macro.body[1].nodes) > 0
     /\ macro.body[1].nodes[1].type = "TemplateData"
  THEN macro.body[1].nodes[1].data
  ELSE <<>>

\* C7: for every prefix-matching macro, body extraction never raises: the
\* contents are the literal data of the first child of the first body
\* element when the body has that shape, and the empty string for every
\* other shape (empty body, first element without child nodes, first element
\* a control structure or a non-literal).
C7_BodyExtractionNeverRaises ==
  (last.outcome # "none" /\ StartsWith(last.key, DOCS_PREFIX))
    => /\ last.exc # "AttributeError"
       /\ Emitted
       /\ last.second.block_contents = ExpectedContents(last.macro)

----------------------------------------------------------------------------
(* Properties of the frontmatter extractor, checked under SpecFM. A        *)
(* document is read line by line here, independently of the pattern.       *)

DocLines == SplitLines(content)

\* the indices of the document's newline characters
Newlines == {j \in 1..Len(content) : content[j] = "\n"}

\* the 0-based offset at which line i (1-based) of the document starts: 0, or
\* just past the (i-1)-th newline
LineOffset(i) ==
  IF i = 1 THEN 0
  ELSE CHOOSE j \in Newlines : Cardinality({k \in Newlines : k <= j}) = i - 1

\* a line that is three hyphens followed by nothing but whitespace
IsDelimiterLine(line) ==
  /\ Len(line) >= 3
  /\ line[1] = "-" /\ line[2] = "-" /\ line[3] = "-"
  /\ \A i \in 4..Len(line) : line[i] \in Whitespace

HorizontalWhitespace == {" ", "\t"}

\* a line that is three hyphens with only spaces or tabs before and after
ClaimedDelimiterLine(line) ==
  \E a \in 0..Len(line) :
    /\ a + 3 <= Len(line)
    /\ \A i \in 1..a : line[i] \in HorizontalWhitespace
    /\ line[a + 1] = "-" /\ line[a + 2] = "-" /\ line[a + 3] = "-"
    /\ \A i \in (a + 4)..Len(line) : line[i] \in HorizontalWhitespace

\* the delimiter lines of the document, by index
DelimiterLines == {i \in 1..Len(DocLines) : IsDelimiterLine(DocLines[i])}

\* the k-th delimiter line
NthDelimiter(k) ==
  CHOOSE i \in DelimiterLines : Cardinality({j \in DelimiterLines : j <= i}) = k

\* x is y without a leading run of whitespace
IsWsTrimmedSuffix(x, y) ==
  /\ Len(x) <= Len(y)
  /\ SubSeq(y, Len(y) - Len(x) + 1, Len(y)) = x
  /\ \A i \in 1..(Len(y) - Len(x)) : y[i] \in Whitespace

\* the pattern matches at the start of line i
RecognisedAtLine(i) == DelimiterMatchAt(content, LineOffset(i)) >= 0

ParseCalled == called = "parse_yaml_frontmatter"

\* the document has a delimiter pair with only whitespace before it
HasFrontmatterBlock == Len(parts) = 3 /\ ~NON_WHITESPACE_search(parts[1])

ExampleDocument ==
  Join(<< <<"-", "-", "-">>, <<"a", ":", " ", "1">>, <<"-", "-", "-">>,
          <<"B", "O", "D", "Y">> >>)

\* C2: when the document has two delimiter lines, only whitespace before the
\* first, and the text between them decodes as YAML, parse_yaml_frontmatter
\* returns (decoded mapping, text after the second delimiter); for
\* "---\na: 1\n---\nBODY" it returns ({"a": 1}, "BODY").
C2_ReturnsMappingAndBody ==
  /\ (ParseCalled /\ HasFrontmatterBlock /\ safe_load(parts[2]).kind = "ok")
       => /\ result.kind = "return"
          /\ result.front = [isNone  |-> safe_load(parts[2]).isNone,
                             entries |-> safe_load(parts[2]).entries]
          /\ result.body = parts[3]
  /\ (ParseCalled /\ content = ExampleDocument)
       => result = ReturnPair(Mapping({<<"a", 1>>}), <<"B", "O", "D", "Y">>)

\* C3: for every document with fewer than two delimiter lines, and for every
\* document with a non-whitespace character before the first delimiter,
\* parse_yaml_frontmatter returns (None, content) with the content unchanged,
\* under either policy and without raising.
C3_NoFrontmatterReturnsContent ==
  (ParseCalled /\ ~HasFrontmatterBlock)
    => result = ReturnPair(None, content)

\* C4: for malformed YAML between two valid delimiters, the `ignore` policy
\* returns (None, content), raises nothing and never calls warn_or_error.
C4_IgnoreSwallowsDecodeError ==
  ( /\ ParseCalled
    /\ on_error = "ignore"
    /\ HasFrontmatterBlock
    /\ safe_load(parts[2]).kind = "error" )
    => /\ result = ReturnPair(None, content)
       /\ warn_calls = <<>>

\* the 0-based index, in the whole document, of its first tab-led line: the
\* line the decoder rejects when the frontmatter's only fault is that line
FailingDocLine ==
  (CHOOSE i \in 1..Len(DocLines) :
     /\ YamlLineKind(DocLines[i]) = "tab"
     /\ \A j \in 1..(i - 1) : YamlLineKind(DocLines[j]) # "tab") - 1

\* C5: for malformed YAML between two valid delimiters, the `warn_or_error`
\* policy calls warn_or_error exactly once, with the banner followed by the
\* contextualized message for the failing line numbered (1-based) in the
\* original full document, its context window taken from that document.
C5_WarnsOnceWithDocumentLine ==
  ( /\ ParseCalled
    /\ on_error = "warn_or_error"
    /\ HasFrontmatterBlock
    /\ safe_load(parts[2]).kind = "error" )
    => /\ Len(warn_calls) = 1
       /\ warn_calls[1]
            = Banner \o contextualized_yaml_error(
                          content,
                          [has_mark |-> TRUE, line |-> FailingDocLine,
                           text |-> safe_load(parts[2]).error.text])

\* what line 77 leaves in `parts`, in terms of the document's delimiter lines
\* (end(i): the 0-based offset just past line i)
SplitsOnFirstTwoDelimiterLines ==
  LET lines  == DocLines
      delims == {i \in 1..Len(lines) : IsDelimiterLine(lines[i])}
      n      == Cardinality(delims)
      d1     == CHOOSE i \in delims : \A j \in delims : i <= j
      later  == delims \ {d1}
      d2     == CHOOSE i \in later : \A j \in later : i <= j
      end(i) == LineOffset(i) + Len(lines[i])
  IN /\ Len(parts) = Min(n, 2) + 1
     /\ n = 0 => parts[1] = content
     /\ n >= 1 => parts[1] = Slice(content, 0, LineOffset(d1))
     /\ n = 1 =>
          IsWsTrimmedSuffix(parts[2], Slice(content, end(d1), Len(content)))
     /\ n >= 2 =>
          /\ IsWsTrimmedSuffix(parts[2],
                               Slice(content, end(d1), LineOffset(d2)))
          /\ IsWsTrimmedSuffix(parts[3],
                               Slice(content, end(d2), Len(content)))

\* C8 as stated: a line is a delimiter exactly when it is three hyphens
\* optionally preceded and followed by spaces or tabs, and
\* parse_yaml_frontmatter splits into at most 3 segments on the first two
\* such lines only.
C8_DelimiterMayBeIndented ==
  ParseCalled
    => LET lines == DocLines
       IN /\ \A i \in 1..Len(lines) :
               RecognisedAtLine(i) <=> ClaimedDelimiterLine(lines[i])
          /\ Len(parts) <= 3

\* C8 as amended: a line is a delimiter exactly when it starts with three
\* hyphens and the rest of it is whitespace of any kind (nothing may precede
\* the hyphens); the split of parse_yaml_frontmatter cuts the document into
\* at most 3 segments at the first two delimiter lines only, each cut also
\* taking the whitespace-only text that directly follows the delimiter line,
\* and later delimiter lines stay inside the last segment.
C8_DelimiterStartsTheLine ==
  ParseCalled
    => LET lines == DocLines
       IN /\ \A i \in 1..Len(lines) :
               RecognisedAtLine(i) <=> IsDelimiterLine(lines[i])
          /\ Len(parts) <= 3
          /\ SplitsOnFirstTwoDelimiterLines

\* three delimiter lines, the third left inside the last segment, beside an
\* indented line of hyphens that is no delimiter
C8_Witness ==
  /\ ParseCalled
  /\ Cardinality(DelimiterLines) >= 3
  /\ Len(parts) = 3
  /\ Len(parts[3]) >= Len(content) - LineOffset(NthDelimiter(3))
  /\ \E i \in 1..Len(DocLines) :
       ClaimedDelimiterLine(DocLines[i]) /\ ~IsDelimiterLine(DocLines[i])

\* C9: maybe_has_yaml_frontmatter is true iff the delimiter pattern appears
\* anywhere in the text: true (a match object) whenever the split of
\* parse_yaml_frontmatter finds a delimiter pair, false (None) when the
\* document has no delimiter line.
C9_PrefilterHasNoFalseNegatives ==
  called = "maybe_has_yaml_frontmatter"
    => /\ result.kind = "return"
       /\ Truthy(result) <=> DelimiterLines # {}
       /\ Len(FRONTMATTER_DELIMITER_split(content, 2)) = 3 => Truthy(result)

\* a delimiter pair that does not start the document is reported
C9_Witness ==
  /\ called = "maybe_has_yaml_frontmatter"
  /\ Len(FRONTMATTER_DELIMITER_split(content, 2)) = 3
  /\ ~IsDelimiterLine(DocLines[1])
  /\ Truthy(result)

----------------------------------------------------------------------------
(* Properties of the error rendering, checked under SpecErr. *)

\* the 1-based line number n as a label: left-justified to width 3
Label(n) ==
  IF n < 10 THEN <<DigitChars[n + 1], " ", " ">>
  ELSE IF n < 100 THEN <<DigitChars[(n \div 10) + 1], DigitChars[(n % 10) + 1], " ">>
  ELSE PyStr(n)

\* C10: for a decode error at 0-indexed line L of a document with N lines,
\* the context covers exactly the lines max(L-3, 0) .. min(L+3, N-1), in
\* order, each labelled with its 1-based number left-justified to width 3
\* and followed by "| ", and the header reports line L+1.
C10_ContextWindow ==
  called = "contextualized_yaml_error"
    => LET out == SplitLines(result.body)
           L   == yaml_error.line
           N   == Len(DocLines)
           lo  == Max(L - 3, 0)
           hi  == Min(L + 3, N - 1)
           cnt == Max(hi - lo + 1, 0)
           shown == Max(cnt, 1)
       IN /\ result.kind = "return"
          /\ Len(out) >= shown + 4
          /\ out[1] = MsgHeader \o PyStr(L + 1)
          /\ out[2] = MsgRule
          /\ \A k \in 1..cnt :
               out[2 + k] = Label(lo + k) \o <<"|", " ">> \o DocLines[lo + k]
          /\ cnt = 0 => out[3] = <<>>
          /\ out[shown + 3] = <<>>
          /\ out[shown + 4] = MsgRaw

\* the case of the claim's example: L = 10 in a 20-line document
C10_Witness ==
  /\ called = "contextualized_yaml_error"
  /\ yaml_error.line = 10
  /\ Len(DocLines) = 20
  /\ result.kind = "return"
  /\ Len(SplitLines(result.body)) >= 11

====
